---- MODULE Spec2Model ----
(***************************************************************************)
(* Model of _DaliBaseIterator (dali/python/nvidia/dali/plugin/             *)
(* base_iterator.py): the epoch / shard bookkeeping of the DALI framework  *)
(* iterators.  Arrays are 0-indexed functions, as the numpy arrays are.    *)
(***************************************************************************)
EXTENDS Integers, Sequences, FiniteSets, TLC

\* ------------------------------------------------------------------ bounds
MaxPipes     == 2
MaxShards    == 2
MaxBatch     == 2
MaxEpochSize == 7
MaxCounter   == 4
MaxAhead     == 4
MaxEpochs    == 3

\* ----------------------------------------------------------------- helpers
Range(f) == {f[i] : i \in DOMAIN f}

Min(f) == CHOOSE x \in Range(f) : \A y \in Range(f) : x <= y

Max(f) == CHOOSE x \in Range(f) : \A y \in Range(f) : x >= y

\* math.ceil(a / b) for b > 0; a may be negative (ceil(-1/2) = 0)
CeilDiv(a, b) == -((-a) \div b)

\* np.floor(a / b) for b > 0
FloorDiv(a, b) == a \div b

Len0(a) == Cardinality(DOMAIN a)

Zeros(n) == [i \in 0..(n - 1) |-> 0]

NoArray == [i \in 0..(-1) |-> 0]

\* np.roll(a, 1): element i moves to position i + 1, the last one to 0
Roll(a, n) == [i \in 0..(n - 1) |-> a[(i + n - 1) % n]]

VARIABLES
  pc,                 \* "new" before __init__, "ready" after it, "failed" when it raised
  pipelines,          \* argument: the wrapped pipelines, each with batch_size and reader meta
  args,               \* arguments size, reader_name, auto_reset, fill_last_batch, last_batch_padded
  error,              \* which assertion of __init__ failed ("none" when it did not)
  num_gpus, batch_size, size, auto_reset, fill_last_batch, last_batch_padded,
  counter, reader_name, size_no_pad, shards_num, is_stick_to_shard,
  shards_id, counter_per_gpu, shard_sizes_per_gpu, shard_sizes_per_gpu_initial,
  pipe_calls,         \* collaborator calls made by the last operation
  lastOp,             \* the last operation called
  stop_raised,        \* whether the last operation was a _check_stop that raised StopIteration
  did_reset,          \* whether the last operation ran the body of reset()
  warned,             \* whether the last operation logged the premature reset warning
  drop,               \* what the last operation returned, when it was _remove_padded
  epoch_start,        \* history: counter at the start of the current epoch
  steps,              \* history: batches drawn in the current epoch
  rotations,          \* history: successful resets so far, modulo shards_num
  skipped,            \* history: whether the last reset took the skipped-epoch path
  tally               \* history, kept on request: samples drawn and resets carried out

cfgvars == <<pipelines, args>>

initvars == <<num_gpus, batch_size, auto_reset, fill_last_batch, last_batch_padded,
              reader_name, size_no_pad, shards_num, is_stick_to_shard,
              shard_sizes_per_gpu_initial>>

epochvars == <<size, counter, shards_id, counter_per_gpu, shard_sizes_per_gpu>>

histvars == <<epoch_start, steps, rotations, skipped, tally>>

vars == <<pc, cfgvars, error, initvars, epochvars, pipe_calls, lastOp, stop_raised,
          did_reset, warned, drop, histvars>>

NoCalls == [build |-> {}, reset |-> {}, schedule_run |-> {}]

NoDrop == [called |-> FALSE, raised |-> FALSE, per_gpu |-> FALSE,
           if_drop |-> NoArray, left |-> NoArray]

\* ------------------------------------------------------------------ inputs
MaxSize == 7

\* the padded epoch a reader reports: the epoch rounded up to equal shards
\* (line 164: "if padding is enabled all shards are equal")
PaddedEpochSize(es, ns) == ns * CeilDiv(es, ns)

\* what the readers of the pipelines report: a dataset that is not empty (a
\* pipeline over an empty dataset does not build), number_of_shards >= 1 and
\* shard ids below number_of_shards
ReaderMeta(es, ns, pad, stick, ids) ==
  [epoch_size |-> es, epoch_size_padded |-> PaddedEpochSize(es, ns),
   number_of_shards |-> ns, pad_last_batch |-> pad, stick_to_shard |-> stick,
   shard_ids |-> ids]

\* the meta of pipelines that are never asked for it (no reader_name)
NoMeta(n) ==
  [epoch_size |-> 0, epoch_size_padded |-> 0, number_of_shards |-> 1,
   pad_last_batch |-> FALSE, stick_to_shard |-> FALSE, shard_ids |-> Zeros(n)]

\* n pipelines that agree on batch_size and on the reader's meta
UniformPipelines(n, bs, m) ==
  [w \in 0..(n - 1) |->
     [batch_size |-> bs,
      meta |-> [epoch_size |-> m.epoch_size,
                epoch_size_padded |-> m.epoch_size_padded,
                number_of_shards |-> m.number_of_shards,
                shard_id |-> m.shard_ids[w],
                pad_last_batch |-> m.pad_last_batch,
                stick_to_shard |-> m.stick_to_shard]]]

Args(sizes, readers) ==
  [size : sizes, reader_name : readers, auto_reset : BOOLEAN,
   fill_last_batch : BOOLEAN, last_batch_padded : BOOLEAN]

\* the iterator is given a reader_name
ReaderConfig ==
  \E n \in 1..MaxPipes, bs \in 1..MaxBatch, ns \in 1..MaxShards,
     es \in 1..MaxEpochSize, pad \in BOOLEAN, stick \in BOOLEAN :
    \E ids \in [0..(n - 1) -> 0..(ns - 1)], a \in Args({-1, 1}, {TRUE}) :
      /\ pipelines = UniformPipelines(n, bs, ReaderMeta(es, ns, pad, stick, ids))
      /\ args = a

\* the iterator is given a manual size
ManualConfig ==
  \E n \in 1..MaxPipes, bs \in 1..MaxBatch, a \in Args((-1)..MaxSize, {FALSE}) :
    /\ pipelines = UniformPipelines(n, bs, NoMeta(n))
    /\ args = a

\* -------------------------------------------------------------- __init__
Pipes == DOMAIN pipelines

\* the comparison looking at the first pipeline only
AllEqual_FirstOnly(vals, first) == vals[0] = first

\* np.all(np.equal([...], first))
AllEqual(vals, first) == \A w \in DOMAIN vals : vals[w] = first

\* np.all([...]) or not np.any([...])
AllOrNone(vals) == (\A w \in DOMAIN vals : vals[w]) \/ ~(\E w \in DOMAIN vals : vals[w])

MetaOf(name) == [w \in Pipes |-> pipelines[w].meta[name]]

\* the assertions of __init__ without the one on a negative size
ArgsError_NoNegative(sz, rn, lbp, n) ==
  IF sz = 0 THEN "size_zero"
  ELSE IF ~(~rn \/ (rn /\ sz < 0)) THEN "reader_size"
  ELSE IF ~(~rn \/ (rn /\ lbp = FALSE)) THEN "reader_padded"
  ELSE "none"

\* the assertions of __init__, in order; "none" when all of them pass
ArgsError(sz, rn, lbp, n) ==
  IF sz = 0 THEN "size_zero"
  ELSE IF ~(sz > 0 \/ (sz < 0 /\ (n = 1 \/ rn))) THEN "negative_size"
  ELSE IF ~(~rn \/ (rn /\ sz < 0)) THEN "reader_size"
  ELSE IF ~(~rn \/ (rn /\ lbp = FALSE)) THEN "reader_padded"
  ELSE "none"

\* the assertions of _extract_from_reader_and_validate, in order
ReaderError ==
  IF ~AllEqual(MetaOf("epoch_size"), pipelines[0].meta.epoch_size) THEN "epoch_size"
  ELSE IF ~AllEqual(MetaOf("number_of_shards"), pipelines[0].meta.number_of_shards)
    THEN "number_of_shards"
  ELSE IF ~AllOrNone(MetaOf("pad_last_batch")) THEN "pad_last_batch"
  ELSE IF ~AllOrNone(MetaOf("stick_to_shard")) THEN "stick_to_shard"
  ELSE "none"

InitError ==
  IF ~AllEqual([w \in Pipes |-> pipelines[w].batch_size], pipelines[0].batch_size)
    THEN "batch_size"
  ELSE IF ArgsError(args.size, args.reader_name, args.last_batch_padded,
                    Len0(pipelines)) # "none"
    THEN ArgsError(args.size, args.reader_name, args.last_batch_padded, Len0(pipelines))
  ELSE IF args.reader_name THEN ReaderError
  ELSE "none"

\* the options kept as requested
ForcedOption_Kept(sz, rn, requested) == requested

\* lines 116-119: a negative size without reader_name switches the options off
ForcedOption(sz, rn, requested) == IF sz < 0 /\ ~rn THEN FALSE ELSE requested

\* every shard given the rounded down share
CalculateShardSizes_Even(no_pad, n) == [id \in 0..(n - 1) |-> FloorDiv(no_pad, n)]

\* _calculate_shard_sizes
CalculateShardSizes(no_pad, n) ==
  [id \in 0..(n - 1) |-> FloorDiv((id + 1) * no_pad, n) - FloorDiv(id * no_pad, n)]

\* the first size without rounding up to full batches
ReaderSize_Unrounded(padded, size_padded, no_pad, n, bs) ==
  IF padded THEN size_padded \div n
  ELSE CeilDiv(no_pad, n)

\* the first size from the rounded down share of a shard
ReaderSize_Floor(padded, size_padded, no_pad, n, bs) ==
  IF padded THEN size_padded \div n
  ELSE CeilDiv(FloorDiv(no_pad, n), bs) * bs

\* lines 163-168: the size of the first epoch, from the reader
ReaderSize(padded, size_padded, no_pad, n, bs) ==
  IF padded THEN size_padded \div n
  ELSE CeilDiv(CeilDiv(no_pad, n), bs) * bs

\* ----------------------------------------------------------- _check_stop
\* the stop condition with > for >=
StopCondition_Strict(c, s) == c > s /\ s > 0

\* line 183: the condition under which StopIteration is raised
StopCondition(c, s) == c >= s /\ s > 0

\* _check_stop resetting without looking at auto_reset
AutoResets_Always(stop, ar) == stop

\* lines 183-185: whether _check_stop calls reset() before it raises
AutoResets(stop, ar) == stop /\ ar

\* ------------------------------------------------------- _remove_padded
\* left without the batch size
Left_NoBatch(bs, c, sizes_initial, ids) ==
  [w \in DOMAIN ids |-> sizes_initial[ids[w]] - c]

\* line 201: left, for every pipeline
Left(bs, c, sizes_initial, ids) ==
  [w \in DOMAIN ids |-> bs - (c - sizes_initial[ids[w]])]

\* lines 196-203; the scalars False and -1 of the fill_last_batch case are
\* recorded with per_gpu = FALSE and the scalar in every position
RemovePaddedResult(fill, bs, c, sizes_initial, ids) ==
  IF ~fill
    THEN [called |-> TRUE, raised |-> FALSE, per_gpu |-> TRUE,
          if_drop |-> [w \in DOMAIN ids |-> Left(bs, c, sizes_initial, ids)[w] < bs],
          left |-> Left(bs, c, sizes_initial, ids)]
    ELSE [called |-> TRUE, raised |-> FALSE, per_gpu |-> FALSE,
          if_drop |-> [w \in DOMAIN ids |-> FALSE],
          left |-> [w \in DOMAIN ids |-> -1]]

\* without reader_name the shard arrays were never set: AttributeError
RemovePaddedRaises == ~fill_last_batch /\ ~reader_name

\* ------------------------------------------------------------------ reset
\* reset() refused when the epoch ended exactly at size
ResetAccepted_Strict(c, s) == c > s \/ s < 0

\* reset() accepted as soon as a batch was drawn
ResetAccepted_Early(c, s) == c > 0 \/ s < 0

\* line 211: whether reset() is carried out
ResetAccepted(c, s) == c >= s \/ s < 0

\* the accurate rebase that leaves the counter where the epoch ended
AccurateRebase_KeepCounter(c, cpg, sizes) ==
  LET c1   == c - Min(cpg)
      cpg1 == [i \in DOMAIN cpg |-> cpg[i] + c1]
      cpg2 == [i \in DOMAIN cpg |-> cpg1[i] - sizes[i]]
  IN  [counter |-> c, counter_per_gpu |-> cpg2]

\* the accurate rebase that starts from the pipeline that is furthest ahead
AccurateRebase_Max(c, cpg, sizes) ==
  LET c1   == c - Min(cpg)
      cpg1 == [i \in DOMAIN cpg |-> cpg[i] + c1]
      cpg2 == [i \in DOMAIN cpg |-> cpg1[i] - sizes[i]]
  IN  [counter |-> Max(cpg2), counter_per_gpu |-> cpg2]

\* lines 217-223: the accurate rebase of the counters
AccurateRebase(c, cpg, sizes) ==
  LET c1   == c - Min(cpg)
      cpg1 == [i \in DOMAIN cpg |-> cpg[i] + c1]
      cpg2 == [i \in DOMAIN cpg |-> cpg1[i] - sizes[i]]
  IN  [counter |-> Min(cpg2), counter_per_gpu |-> cpg2]

\* the quotient for the remainder
LegacyRebase_Quotient(c, s) == c \div s

\* the legacy rebase by one subtraction
LegacyRebase_Subtract(c, s) == c - s

\* line 226: the legacy rebase
LegacyRebase(c, s) == c % s

\* the rebase chosen on fill_last_batch alone
RebaseCounters_FillOnly(fill, padded, rn, c, s, cpg, sizes) ==
  IF fill
    THEN IF rn THEN AccurateRebase(c, cpg, sizes)
         ELSE [counter |-> LegacyRebase(c, s), counter_per_gpu |-> cpg]
    ELSE [counter |-> 0, counter_per_gpu |-> cpg]

\* lines 212-228: the counters for the next epoch
RebaseCounters(fill, padded, rn, c, s, cpg, sizes) ==
  IF fill /\ ~padded
    THEN IF rn THEN AccurateRebase(c, cpg, sizes)
         ELSE [counter |-> LegacyRebase(c, s), counter_per_gpu |-> cpg]
    ELSE [counter |-> 0, counter_per_gpu |-> cpg]

\* the shards advanced when stick_to_shard is set, instead of when it is not
AdvanceShards_Inverted(ids, n, stick) ==
  IF stick THEN [w \in DOMAIN ids |-> (ids[w] + 1) % n] ELSE ids

\* lines 231-233: advance to the next shard
AdvanceShards(ids, n, stick) ==
  IF ~stick THEN [w \in DOMAIN ids |-> (ids[w] + 1) % n] ELSE ids

\* lines 237-238
RollSizes(sizes, n, stick) == IF ~stick THEN Roll(sizes, n) ELSE sizes

\* the next size without rounding up to full batches
NextSize_Unrounded(read_in_next_epoch, bs) == Max(read_in_next_epoch)

\* line 243 and line 256
NextSize(read_in_next_epoch, bs) == CeilDiv(Max(read_in_next_epoch), bs) * bs

\* lines 246-256: the skipped epoch
SkipEpoch(sizes, n, bs) ==
  [counter |-> 0, counter_per_gpu |-> Zeros(n),
   shard_sizes_per_gpu |-> Roll(sizes, n),
   size |-> NextSize(Roll(sizes, n), bs)]

\* lines 235-256: revaluate _size
RevaluateSize(c, cpg, sizes, n, bs, stick) ==
  LET rolled == RollSizes(sizes, n, stick)
      read_in_next_epoch == [i \in DOMAIN rolled |-> rolled[i] - cpg[i]]
      s == NextSize(read_in_next_epoch, bs)
  IN  IF s = 0 THEN SkipEpoch(rolled, n, bs)
      ELSE [counter |-> c, counter_per_gpu |-> cpg,
            shard_sizes_per_gpu |-> rolled, size |-> s]

\* lines 212-256: the state reset() leaves, when it is carried out
ResetResult ==
  LET rb == RebaseCounters(fill_last_batch, last_batch_padded, reader_name,
                           counter, size, counter_per_gpu, shard_sizes_per_gpu)
      ids == IF reader_name THEN AdvanceShards(shards_id, shards_num, is_stick_to_shard)
             ELSE shards_id
      rv == IF reader_name /\ fill_last_batch /\ ~last_batch_padded
              THEN RevaluateSize(rb.counter, rb.counter_per_gpu, shard_sizes_per_gpu,
                                 shards_num, batch_size, is_stick_to_shard)
              ELSE [counter |-> rb.counter, counter_per_gpu |-> rb.counter_per_gpu,
                    shard_sizes_per_gpu |-> shard_sizes_per_gpu, size |-> size]
  IN  [counter |-> rv.counter, size |-> rv.size, shards_id |-> ids,
       counter_per_gpu |-> rv.counter_per_gpu,
       shard_sizes_per_gpu |-> rv.shard_sizes_per_gpu]

\* whether the reset that is carried out takes the skipped-epoch path
SkipTaken ==
  /\ reader_name /\ fill_last_batch /\ ~last_batch_padded
  /\ LET rb == AccurateRebase(counter, counter_per_gpu, shard_sizes_per_gpu)
         rolled == RollSizes(shard_sizes_per_gpu, shards_num, is_stick_to_shard)
     IN  NextSize([i \in DOMAIN rolled |-> rolled[i] - rb.counter_per_gpu[i]],
                  batch_size) = 0

\* ---------------------------------------------------------- specification
\* the state before __init__ ran, but for the arguments
Fresh ==
  /\ pc = "new"
  /\ error = "none"
  /\ num_gpus = 0 /\ batch_size = 0 /\ size = 0
  /\ auto_reset = FALSE /\ fill_last_batch = FALSE /\ last_batch_padded = FALSE
  /\ counter = 0 /\ reader_name = FALSE /\ size_no_pad = 0 /\ shards_num = 0
  /\ is_stick_to_shard = FALSE
  /\ shards_id = NoArray /\ counter_per_gpu = NoArray
  /\ shard_sizes_per_gpu = NoArray /\ shard_sizes_per_gpu_initial = NoArray
  /\ pipe_calls = NoCalls
  /\ lastOp = "none" /\ stop_raised = FALSE /\ did_reset = FALSE /\ warned = FALSE
  /\ drop = NoDrop
  /\ epoch_start = 0 /\ steps = 0 /\ rotations = 0 /\ skipped = FALSE

\* no tally is kept
Untallied == tally = [on |-> FALSE, drawn |-> 0, resets |-> 0]

\* the samples drawn and the resets carried out are counted, for MaxEpochs epochs
Tallied == tally = [on |-> TRUE, drawn |-> 0, resets |-> 0]

Init == Fresh /\ Untallied /\ (ReaderConfig \/ ManualConfig)

\* __init__ (lines 89-131) with _extract_from_reader_and_validate (138-177)
Construct ==
  /\ pc = "new"
  /\ lastOp' = "init"
  /\ error' = InitError
  /\ UNCHANGED <<cfgvars, stop_raised, did_reset, warned, drop, histvars>>
  /\ IF InitError # "none"
       THEN /\ pc' = "failed"
            /\ pipe_calls' = [NoCalls EXCEPT !.build =
                 IF InitError \in {"epoch_size", "number_of_shards",
                                   "pad_last_batch", "stick_to_shard"}
                   THEN Pipes ELSE {}]
            /\ UNCHANGED <<initvars, epochvars>>
       ELSE /\ pc' = "ready"
            /\ pipe_calls' = [NoCalls EXCEPT !.build = Pipes]
            /\ num_gpus' = Len0(pipelines)
            /\ batch_size' = pipelines[0].batch_size
            /\ auto_reset' = ForcedOption(args.size, args.reader_name, args.auto_reset)
            /\ fill_last_batch' =
                 ForcedOption(args.size, args.reader_name, args.fill_last_batch)
            /\ counter' = 0
            /\ reader_name' = args.reader_name
            /\ IF args.reader_name
                 THEN LET m == pipelines[0].meta IN
                      /\ size_no_pad' = m.epoch_size
                      /\ shards_num' = m.number_of_shards
                      /\ last_batch_padded' = m.pad_last_batch
                      /\ is_stick_to_shard' = m.stick_to_shard
                      /\ shards_id' = [w \in Pipes |-> pipelines[w].meta.shard_id]
                      /\ size' = ReaderSize(m.pad_last_batch, m.epoch_size_padded,
                                            m.epoch_size, m.number_of_shards,
                                            pipelines[0].batch_size)
                      /\ counter_per_gpu' = Zeros(m.number_of_shards)
                      /\ shard_sizes_per_gpu' =
                           CalculateShardSizes(m.epoch_size, m.number_of_shards)
                      /\ shard_sizes_per_gpu_initial' =
                           CalculateShardSizes(m.epoch_size, m.number_of_shards)
                 ELSE /\ size' = args.size
                      /\ last_batch_padded' = ForcedOption(args.size, args.reader_name,
                                                           args.last_batch_padded)
                      /\ UNCHANGED <<size_no_pad, shards_num, is_stick_to_shard, shards_id,
                                     counter_per_gpu, shard_sizes_per_gpu,
                                     shard_sizes_per_gpu_initial>>

\* the model stops resetting once a pipeline is MaxAhead samples ahead (or
\* behind): with unequal shards and stick_to_shard the count grows for ever
AheadBounded ==
  /\ \A i \in DOMAIN counter_per_gpu : counter_per_gpu[i] \in (-MaxAhead)..MaxAhead
  /\ tally.on => tally.resets < MaxEpochs

\* lines 212-262: the body of reset(); empty is the set of pipelines whose
\* empty() answers true
DoReset(empty) ==
  /\ counter' = ResetResult.counter
  /\ size' = ResetResult.size
  /\ shards_id' = ResetResult.shards_id
  /\ counter_per_gpu' = ResetResult.counter_per_gpu
  /\ shard_sizes_per_gpu' = ResetResult.shard_sizes_per_gpu
  /\ pipe_calls' = [NoCalls EXCEPT !.reset = Pipes, !.schedule_run = empty]
  /\ did_reset' = TRUE
  /\ epoch_start' = ResetResult.counter
  /\ steps' = 0
  /\ rotations' = IF reader_name THEN (rotations + 1) % shards_num ELSE rotations
  /\ skipped' = SkipTaken
  /\ tally' = IF tally.on THEN [tally EXCEPT !.resets = @ + 1] ELSE tally

\* reset() (lines 205-264)
Reset ==
  /\ pc = "ready"
  /\ lastOp' = "reset"
  /\ ResetAccepted(counter, size) => AheadBounded
  /\ IF ResetAccepted(counter, size)
       THEN /\ \E empty \in SUBSET Pipes : DoReset(empty)
            /\ warned' = FALSE
       ELSE /\ warned' = TRUE
            /\ did_reset' = FALSE
            /\ pipe_calls' = NoCalls
            /\ UNCHANGED <<epochvars, histvars>>
  /\ stop_raised' = FALSE /\ drop' = NoDrop
  /\ UNCHANGED <<pc, cfgvars, error, initvars>>

\* _check_stop() (lines 179-186)
CheckStop ==
  /\ pc = "ready"
  /\ lastOp' = "check_stop"
  /\ AutoResets(StopCondition(counter, size), auto_reset) => AheadBounded
  /\ stop_raised' = StopCondition(counter, size)
  /\ warned' = FALSE
  /\ IF AutoResets(StopCondition(counter, size), auto_reset)
       THEN \E empty \in SUBSET Pipes : DoReset(empty)
       ELSE /\ did_reset' = FALSE
            /\ pipe_calls' = NoCalls
            /\ UNCHANGED <<epochvars, histvars>>
  /\ drop' = NoDrop
  /\ UNCHANGED <<pc, cfgvars, error, initvars>>

\* _remove_padded() (lines 188-203)
RemovePadded ==
  /\ pc = "ready"
  /\ lastOp' = "remove_padded"
  /\ drop' = IF RemovePaddedRaises THEN [NoDrop EXCEPT !.called = TRUE, !.raised = TRUE]
             ELSE RemovePaddedResult(fill_last_batch, batch_size, counter,
                                     shard_sizes_per_gpu_initial, shards_id)
  /\ did_reset' = FALSE /\ warned' = FALSE /\ pipe_calls' = NoCalls
  /\ stop_raised' = FALSE
  /\ UNCHANGED <<pc, cfgvars, error, initvars, epochvars, histvars>>

\* the step the caller adds to the counter for one batch
BatchStep(bs) == bs

\* the caller draws a batch: it does so only when _check_stop did not raise
DrawBatch ==
  /\ pc = "ready"
  /\ ~StopCondition(counter, size)
  /\ size > 0 \/ counter < MaxCounter
  /\ lastOp' = "draw"
  /\ counter' = counter + BatchStep(batch_size)
  /\ steps' = steps + 1
  /\ tally' = IF tally.on THEN [tally EXCEPT !.drawn = @ + BatchStep(batch_size)]
              ELSE tally
  /\ did_reset' = FALSE /\ warned' = FALSE /\ pipe_calls' = NoCalls
  /\ stop_raised' = FALSE /\ drop' = NoDrop
  /\ UNCHANGED <<pc, cfgvars, error, initvars, size, shards_id, counter_per_gpu,
                 shard_sizes_per_gpu, epoch_start, rotations, skipped>>

Next == Construct \/ Reset \/ CheckStop \/ RemovePadded \/ DrawBatch

Spec == Init /\ [][Next]_vars

\* ------------------------------------------------------------- properties
Ready == pc = "ready"

\* C1: _check_stop raises StopIteration exactly when counter >= size and
\* size > 0, evaluated on the state it is called in: never while
\* counter < size, never when size <= 0
C1_StopIff ==
  [][lastOp' = "check_stop" => (stop_raised' <=> (counter >= size /\ size > 0))]_vars

C1_Witness ==
  /\ Ready /\ lastOp = "check_stop" /\ stop_raised /\ ~auto_reset
  /\ counter = size /\ size > 0

\* C2: reset() called with 0 <= counter < size changes neither counter, size,
\* the shard ids, counter_per_gpu nor the shard sizes and calls no pipeline,
\* whatever the options and however often it is repeated
C2_PrematureResetNoOp ==
  [][lastOp' = "reset" /\ 0 <= counter /\ counter < size =>
       /\ UNCHANGED <<counter, size, shards_id, counter_per_gpu, shard_sizes_per_gpu>>
       /\ pipe_calls'.reset = {} /\ pipe_calls'.schedule_run = {}]_vars

C2_Witness ==
  /\ Ready /\ lastOp = "reset" /\ warned /\ ~did_reset
  /\ 0 < counter /\ counter < size /\ reader_name /\ pipe_calls = NoCalls

\* C3: with a negative size and no reader_name the three options are off
\* after construction whatever was requested, size stays negative, no
\* _check_stop ever raises, and every reset() is carried out and leaves
\* counter at 0
C3_Unsized ==
  Ready /\ args.size < 0 /\ ~args.reader_name =>
    /\ ~auto_reset /\ ~fill_last_batch /\ ~last_batch_padded
    /\ size < 0
    /\ ~stop_raised
    /\ lastOp = "reset" => did_reset /\ ~warned /\ counter = 0

C3_Witness ==
  /\ Ready /\ args.size < 0 /\ ~args.reader_name
  /\ args.auto_reset /\ args.fill_last_batch /\ args.last_batch_padded
  /\ lastOp = "reset" /\ did_reset /\ counter = 0 /\ pipe_calls.reset = Pipes

\* how often shard id s is assigned
Assigned(ids, s) == Cardinality({w \in DOMAIN ids : ids[w] = s})

\* every shard id is assigned to exactly one pipeline
OnePerShard(ids, n) == \A s \in 0..(n - 1) : Assigned(ids, s) = 1

\* the shard id pipeline w was constructed with
FirstShard(w) == pipelines[w].meta.shard_id

\* C4 as stated: with a reader and without stick_to_shard every reset that is
\* carried out moves each shard id s to (s + 1) mod shards_num and leaves the
\* multiset of assigned shard ids unchanged
C4_MultisetUnchanged ==
  [][Ready /\ reader_name /\ ~is_stick_to_shard /\ did_reset' =>
       /\ \A w \in DOMAIN shards_id : shards_id'[w] = (shards_id[w] + 1) % shards_num
       /\ \A s \in 0..(shards_num - 1) :
            Assigned(shards_id', s) = Assigned(shards_id, s)]_vars

\* C4 amended: with a reader and without stick_to_shard every reset that is
\* carried out (the skipped-epoch path included) moves each shard id s to
\* (s + 1) mod shards_num, which leaves the multiset of assigned ids unchanged
\* when every shard id is assigned to exactly one pipeline; after k such
\* resets pipeline w is on shard (first + k) mod shards_num, so shards_num
\* consecutive resets take it through every shard once.  With stick_to_shard
\* no step changes a shard id
C4_Rotation ==
  [][Ready /\ reader_name =>
       /\ ~is_stick_to_shard /\ did_reset' =>
            /\ \A w \in DOMAIN shards_id :
                 shards_id'[w] = (shards_id[w] + 1) % shards_num
            /\ rotations' = (rotations + 1) % shards_num
            /\ OnePerShard(shards_id, shards_num) =>
                 \A s \in 0..(shards_num - 1) :
                   Assigned(shards_id', s) = Assigned(shards_id, s)
       /\ ~is_stick_to_shard =>
            \A w \in DOMAIN shards_id :
              shards_id'[w] = (FirstShard(w) + rotations') % shards_num
       /\ is_stick_to_shard => shards_id' = shards_id]_vars

C4_Witness ==
  /\ Ready /\ reader_name /\ ~is_stick_to_shard /\ shards_num >= 2
  /\ did_reset /\ skipped /\ rotations = 1
  /\ \A w \in DOMAIN shards_id : shards_id[w] = (FirstShard(w) + 1) % shards_num

\* the size __init__ set: the manual size, or the one derived from the reader
PaddedReaderSize == pipelines[0].meta.epoch_size_padded \div shards_num

\* C5 as stated: with fill_last_batch, after every reset that is carried out
\* size is a multiple of batch_size, with a manual size or a reader, padded
\* or not
C5_AlwaysMultiple ==
  Ready /\ did_reset /\ fill_last_batch => size % batch_size = 0

\* C5 amended: with fill_last_batch, after every reset that is carried out
\* size is a multiple of batch_size when it comes from a reader that does not
\* pad the last batch; with a manual size or a padding reader, reset() leaves
\* size as constructed (the manual size, or epoch_size_padded // shards_num)
C5_MultipleAfterReset ==
  Ready /\ did_reset /\ fill_last_batch =>
    /\ reader_name /\ ~last_batch_padded => size % batch_size = 0
    /\ reader_name /\ last_batch_padded => size = PaddedReaderSize
    /\ ~reader_name => size = args.size

C5_Witness ==
  /\ Ready /\ did_reset /\ fill_last_batch /\ reader_name /\ ~last_batch_padded
  /\ batch_size = 2 /\ size_no_pad % 2 = 1 /\ size % 2 = 0 /\ counter > 0

SevenByTwo(fill) ==
  /\ Ready /\ reader_name /\ num_gpus = 1 /\ shards_num = 1
  /\ size_no_pad = 7 /\ batch_size = 2 /\ fill_last_batch = fill

\* C7: without fill_last_batch and with a reader, _remove_padded returns for
\* every pipeline w left[w] = batch_size - (counter - size of w's shard) and
\* if_drop[w] exactly when left[w] < batch_size, that is when counter exceeds
\* the size of w's shard; with one shard of 7 samples and batch size 2 the
\* counter runs 2, 4, 6, 8, padding is reported at 8 only and left is 1 there,
\* the stop condition holds at 8 only and reset() returns counter to 0; with
\* fill_last_batch no padding is reported
C7_Padding ==
  /\ Ready /\ lastOp = "remove_padded" /\ reader_name /\ ~fill_last_batch =>
       /\ drop.per_gpu /\ ~drop.raised
       /\ \A w \in DOMAIN shards_id :
            /\ drop.left[w] = batch_size -
                 (counter - shard_sizes_per_gpu_initial[shards_id[w]])
            /\ drop.if_drop[w] <=> drop.left[w] < batch_size
            /\ drop.if_drop[w] <=> counter > shard_sizes_per_gpu_initial[shards_id[w]]
  /\ Ready /\ lastOp = "remove_padded" /\ fill_last_batch =>
       /\ ~drop.per_gpu /\ ~drop.raised
       /\ \A w \in DOMAIN drop.if_drop : ~drop.if_drop[w] /\ drop.left[w] = -1
  /\ SevenByTwo(FALSE) =>
       /\ counter \in {0, 2, 4, 6, 8}
       /\ counter = 2 * steps
       /\ StopCondition(counter, size) <=> counter = 8
       /\ lastOp = "remove_padded" =>
            /\ drop.if_drop[0] <=> steps = 4
            /\ steps = 4 => drop.left[0] = 1
       /\ did_reset => counter = 0

C7_Witness ==
  /\ SevenByTwo(FALSE) /\ lastOp = "remove_padded" /\ steps = 4 /\ counter = 8
  /\ drop.if_drop[0] /\ drop.left[0] = 1

\* the configuration of the legacy example: manual size 7, batch size 2, one
\* pipeline, fill_last_batch and not last_batch_padded
LegacySevenByTwo ==
  /\ Ready /\ ~reader_name /\ num_gpus = 1 /\ size = 7 /\ batch_size = 2
  /\ fill_last_batch /\ ~last_batch_padded

\* C8: with a manual size, fill_last_batch and not last_batch_padded, a reset
\* that is carried out leaves counter modulo size in counter and does not
\* change size; with size 7 and batch size 2 the epoch that starts at 0 ends
\* after 4 steps at counter 8, the reset leaves 1, and the epoch that starts
\* at 1 ends after 3 steps
C8_LegacyRebase ==
  [][/\ Ready /\ ~reader_name /\ fill_last_batch /\ ~last_batch_padded /\ did_reset' =>
          counter' = counter % size /\ size' = size
     /\ LegacySevenByTwo' =>
          /\ epoch_start' \in {0, 1}
          /\ counter' = epoch_start' + 2 * steps'
          /\ StopCondition(counter', size') =>
               /\ epoch_start' = 0 => steps' = 4 /\ counter' = 8
               /\ epoch_start' = 1 => steps' = 3
          /\ did_reset' /\ epoch_start = 0 => counter' = 1 /\ epoch_start' = 1]_vars

C8_Witness ==
  /\ LegacySevenByTwo /\ epoch_start = 1 /\ steps = 3 /\ counter = 7
  /\ lastOp = "check_stop" /\ stop_raised

C10_StopSideEffect ==
  [][/\ lastOp' = "check_stop" /\ counter >= size /\ size > 0 /\ auto_reset =>
          /\ stop_raised' /\ did_reset' /\ pipe_calls'.reset = Pipes
          /\ counter' = ResetResult.counter /\ size' = ResetResult.size
          /\ shards_id' = ResetResult.shards_id
          /\ counter_per_gpu' = ResetResult.counter_per_gpu
          /\ shard_sizes_per_gpu' = ResetResult.shard_sizes_per_gpu
          /\ ~(counter' >= size' /\ size' > 0)
     /\ lastOp' = "check_stop" /\ ~(counter >= size /\ size > 0 /\ auto_reset) =>
          UNCHANGED <<epochvars, initvars>> /\ ~did_reset' /\ pipe_calls' = NoCalls
     /\ lastOp' = "remove_padded" =>
          UNCHANGED <<epochvars, initvars>> /\ ~did_reset' /\ pipe_calls' = NoCalls
     /\ Ready /\ ~auto_reset /\ counter >= size /\ size > 0 /\ lastOp' # "reset" =>
          counter' >= size' /\ size' > 0]_vars

C10_Witness ==
  /\ Ready /\ lastOp = "check_stop" /\ stop_raised /\ did_reset /\ auto_reset
  /\ reader_name /\ fill_last_batch /\ ~last_batch_padded
  /\ counter > 0 /\ counter < size /\ pipe_calls.reset = Pipes

\* ------------------------------------------------- construction, any pipelines
\* the epoch sizes and manual sizes of the pipelines whose construction is examined
CtorEpochSizes == {1, 2}

CtorSizes == {-1, 0, 1}

Fields == {"batch_size", "epoch_size", "number_of_shards", "pad_last_batch",
           "stick_to_shard"}

\* pipeline w reports another value than the others in one field
Deviate(pipes, w, field) ==
  [pipes EXCEPT ![w] =
     IF field = "batch_size" THEN [@ EXCEPT !.batch_size = @ + 1]
     ELSE IF field = "epoch_size"
       THEN [@ EXCEPT !.meta.epoch_size = @ + 1, !.meta.epoch_size_padded = @ + 1]
     ELSE IF field = "number_of_shards" THEN [@ EXCEPT !.meta.number_of_shards = @ + 1]
     ELSE IF field = "pad_last_batch" THEN [@ EXCEPT !.meta.pad_last_batch = ~@]
     ELSE IF field = "stick_to_shard" THEN [@ EXCEPT !.meta.stick_to_shard = ~@]
     ELSE @]

\* pipelines that agree, or of which one deviates in one field, with any
\* combination of the arguments
CtorConfig ==
  \E n \in 1..MaxPipes, bs \in 1..MaxBatch, ns \in 1..MaxShards,
     es \in CtorEpochSizes, pad \in BOOLEAN, stick \in BOOLEAN :
    \E w \in 0..(n - 1), field \in Fields \cup {"none"},
       a \in Args(CtorSizes, BOOLEAN) :
      /\ pipelines = Deviate(UniformPipelines(n, bs,
                               ReaderMeta(es, ns, pad, stick, Zeros(n))), w, field)
      /\ args = a

InitCtor == Fresh /\ Untallied /\ CtorConfig

SpecCtor == InitCtor /\ [][Next]_vars

\* two pipelines differ in what they report for a field
Differ(field) ==
  \E v \in Pipes, w \in Pipes :
    IF field = "batch_size" THEN pipelines[v].batch_size # pipelines[w].batch_size
    ELSE pipelines[v].meta[field] # pipelines[w].meta[field]

\* the pipelines disagree on the batch size or, with a reader_name, on what
\* their readers report
Mismatch ==
  \/ Differ("batch_size")
  \/ args.reader_name /\ \E field \in Fields \ {"batch_size"} : Differ(field)

MismatchErrors == Fields

\* C11: construction fails when the pipelines differ in batch_size or, with a
\* reader_name, in epoch_size or number_of_shards, or when pad_last_batch or
\* stick_to_shard is set for some of them only; an iterator that was
\* constructed has pipelines that agree on all of these, and no later step
\* fails or reports a mismatch
C11_MismatchAtConstruction ==
  [][/\ pc' # "new" /\ Mismatch => pc' = "failed"
     /\ pc' = "ready" => ~Mismatch /\ error' = "none"
     /\ pc' = "ready" =>
          /\ \A w \in Pipes : pipelines[w].batch_size = batch_size'
          /\ reader_name' => \A w \in Pipes :
               /\ pipelines[w].meta.epoch_size = size_no_pad'
               /\ pipelines[w].meta.number_of_shards = shards_num'
               /\ pipelines[w].meta.pad_last_batch = last_batch_padded'
               /\ pipelines[w].meta.stick_to_shard = is_stick_to_shard'
     /\ error' \in MismatchErrors => pc = "new" /\ lastOp' = "init"
     /\ pc = "ready" => pc' = "ready" /\ UNCHANGED <<pipelines, args>>]_vars

C11_Witness ==
  /\ pc = "failed" /\ error = "pad_last_batch" /\ args.reader_name
  /\ Len0(pipelines) = 2 /\ Differ("pad_last_batch") /\ ~Differ("batch_size")
  /\ pipelines[0].meta.pad_last_batch /\ pipe_calls.build = Pipes

\* the combinations of size, reader_name, last_batch_padded and number of
\* pipelines that __init__ refuses
IllegalCombination ==
  \/ args.size = 0
  \/ args.size < 0 /\ Len0(pipelines) > 1 /\ ~args.reader_name
  \/ args.reader_name /\ args.size > 0
  \/ args.reader_name /\ args.last_batch_padded

\* C12: with pipelines that agree, construction fails exactly when the size is
\* 0, or negative with several pipelines and no reader_name, or positive with a
\* reader_name, or last_batch_padded is set with a reader_name; an iterator
\* that was constructed has either a positive manual size and no reader_name,
\* a reader_name and a negative size argument, or one pipeline, a negative
\* size and no reader_name
C12_IllegalCombinations ==
  pc # "new" /\ ~Mismatch =>
    /\ pc = "failed" <=> IllegalCombination
    /\ pc = "ready" =>
         \/ ~reader_name /\ args.size > 0 /\ size = args.size
         \/ reader_name /\ args.size < 0 /\ ~args.last_batch_padded
         \/ ~reader_name /\ args.size < 0 /\ num_gpus = 1 /\ size = args.size

C12_Witness ==
  /\ pc = "failed" /\ ~Mismatch /\ error = "negative_size"
  /\ args.size < 0 /\ ~args.reader_name /\ Len0(pipelines) = 2

\* ------------------------------------------- the sizes computed by __init__
MaxLawSize   == 9
MaxLawShards == 4
MaxLawBatch  == 3

\* one or more pipelines on shard 0 of any number of shards of a dataset of
\* any size, the empty one included, with a reader_name
SizesConfig ==
  \E n \in 1..MaxPipes, bs \in 1..MaxLawBatch, ns \in 1..MaxLawShards,
     es \in 0..MaxLawSize, pad \in BOOLEAN, stick \in BOOLEAN :
    \E a \in Args({-1}, {TRUE}) :
      /\ pipelines = UniformPipelines(n, bs, ReaderMeta(es, ns, pad, stick, Zeros(n)))
      /\ args = a

InitSizes == Fresh /\ Untallied /\ SizesConfig

SpecSizes == InitSizes /\ [][Construct]_vars

RECURSIVE Sum(_, _)
\* a[0] + ... + a[n - 1]
Sum(a, n) == IF n = 0 THEN 0 ELSE a[n - 1] + Sum(a, n - 1)

\* C13: for every shards_num >= 1 and size_no_pad >= 0 the initial shard sizes
\* floor((id+1)*size_no_pad/shards_num) - floor(id*size_no_pad/shards_num) are
\* not negative, sum to size_no_pad and differ from each other by at most 1
C13_BalancedPartition ==
  pc = "ready" /\ reader_name =>
    /\ shards_num >= 1 /\ size_no_pad >= 0
    /\ DOMAIN shard_sizes_per_gpu_initial = 0..(shards_num - 1)
    /\ \A id \in 0..(shards_num - 1) :
         /\ shard_sizes_per_gpu_initial[id] =
              ((id + 1) * size_no_pad) \div shards_num - (id * size_no_pad) \div shards_num
         /\ shard_sizes_per_gpu_initial[id] >= 0
    /\ Sum(shard_sizes_per_gpu_initial, shards_num) = size_no_pad
    /\ Max(shard_sizes_per_gpu_initial) - Min(shard_sizes_per_gpu_initial) <= 1
    /\ shard_sizes_per_gpu = shard_sizes_per_gpu_initial

C13_Witness ==
  /\ pc = "ready" /\ reader_name /\ shards_num = 3 /\ size_no_pad = 7
  /\ shard_sizes_per_gpu_initial = [id \in 0..2 |-> IF id = 2 THEN 3 ELSE 2]

\* C18: with a reader_name and no padding, for every size_no_pad >= 1,
\* shards_num >= 1 and batch_size >= 1 the size after construction is
\* ceil(ceil(size_no_pad / shards_num) / batch_size) * batch_size, the smallest
\* multiple of batch_size that is not below the largest initial shard size, and
\* counter and counter_per_gpu start at 0
C18_InitialReaderSize ==
  pc = "ready" /\ reader_name /\ ~last_batch_padded /\ size_no_pad >= 1 =>
    /\ size = CeilDiv(CeilDiv(size_no_pad, shards_num), batch_size) * batch_size
    /\ size % batch_size = 0
    /\ size >= Max(shard_sizes_per_gpu_initial)
    /\ size - batch_size < Max(shard_sizes_per_gpu_initial)
    /\ counter = 0
    /\ counter_per_gpu = Zeros(shards_num)

C18_Witness ==
  /\ pc = "ready" /\ reader_name /\ ~last_batch_padded
  /\ size_no_pad = 7 /\ shards_num = 2 /\ batch_size = 3
  /\ Max(shard_sizes_per_gpu_initial) = 4 /\ size = 6 /\ counter = 0

\* ------------------------------------------------------ the state after reset
\* the three branches of lines 212-228
AccurateBranch == reader_name /\ fill_last_batch /\ ~last_batch_padded

LegacyBranch == ~reader_name /\ fill_last_batch /\ ~last_batch_padded

ZeroBranch == ~(fill_last_batch /\ ~last_batch_padded)

\* C14: after every reset that is carried out and leaves a size > 0, counter is
\* in 0..size-1, so that _check_stop does not raise before another batch is
\* drawn; in the accurate branch (counter is min(counter_per_gpu), size is
\* recomputed from the rolled shard sizes), in the legacy branch and in the
\* branch that zeroes the counter
C14_ActiveAfterReset ==
  Ready /\ did_reset /\ size > 0 =>
    /\ 0 <= counter /\ counter < size
    /\ ~StopCondition(counter, size)
    /\ AccurateBranch => counter = Min(counter_per_gpu)
    /\ ZeroBranch => counter = 0

C14_Witness ==
  /\ Ready /\ did_reset /\ AccurateBranch /\ ~skipped
  /\ size > 0 /\ counter > 0 /\ counter = Min(counter_per_gpu)
  /\ shard_sizes_per_gpu[0] # shard_sizes_per_gpu_initial[0]

\* C15: with a reader_name, fill_last_batch and not last_batch_padded, the
\* caller adding batch_size per batch and resetting at the end of the epoch,
\* after every reset that is carried out every entry of counter_per_gpu is
\* >= 0, counter is min(counter_per_gpu) and min(counter_per_gpu) < batch_size
C15_ReaderRebase ==
  Ready /\ AccurateBranch /\ did_reset =>
    /\ \A i \in DOMAIN counter_per_gpu : counter_per_gpu[i] >= 0
    /\ counter = Min(counter_per_gpu)
    /\ Min(counter_per_gpu) < batch_size

C15_Witness ==
  /\ Ready /\ AccurateBranch /\ did_reset /\ ~skipped
  /\ shards_num = 2 /\ counter_per_gpu[0] # counter_per_gpu[1]
  /\ Min(counter_per_gpu) > 0

\* ---------------------------------------- one pipeline per shard, in order
MaxAligned == 3

\* pipeline w reads shard w of as many shards as there are pipelines
Identity(n) == [w \in 0..(n - 1) |-> w]

AlignedConfig ==
  \E n \in 1..MaxAligned, bs \in 1..MaxBatch, es \in 1..MaxEpochSize,
     stick \in BOOLEAN :
    \E a \in Args({-1}, {TRUE}) :
      /\ pipelines = UniformPipelines(n, bs, ReaderMeta(es, n, FALSE, stick, Identity(n)))
      /\ args = a

InitAligned == Fresh /\ Untallied /\ AlignedConfig

SpecAligned == InitAligned /\ [][Next]_vars

\* the size of the shard pipeline w is on, as _remove_padded looks it up
\* (line 201)
SizeOfShard(w) == shard_sizes_per_gpu_initial[shards_id[w]]

\* C16 as stated: with a reader_name, fill_last_batch, no padding and pipeline
\* w constructed on shard w of as many shards as pipelines, after any number
\* of resets (with or without stick_to_shard, skipped epochs included)
\* shard_sizes_per_gpu[w] is shard_sizes_per_gpu_initial[shards_id[w]] for
\* every pipeline w
C16_SizesFollowIds ==
  Ready /\ AccurateBranch /\ num_gpus = shards_num
    /\ (\A w \in Pipes : FirstShard(w) = w) =>
      \A w \in Pipes : shard_sizes_per_gpu[w] = SizeOfShard(w)

\* ------------------------------------------------------- the skipped epoch
\* counter_per_gpu after lines 217-221 of the reset that is being carried out
ReadAhead == AccurateRebase(counter, counter_per_gpu, shard_sizes_per_gpu).counter_per_gpu

\* shard_sizes_per_gpu after lines 237-238 of the reset that is being carried out
NextShardSizes == RollSizes(shard_sizes_per_gpu, shards_num, is_stick_to_shard)

\* C17 as stated: a reset in the accurate branch takes the skipped-epoch path
\* exactly when the size it recomputes is 0; whenever it does, every entry of
\* counter_per_gpu equals the size of its next shard at that point (line 247),
\* so that zeroing counter_per_gpu discards nothing; afterwards
\* counter_per_gpu is all zero, counter is 0 and size is
\* ceil(max(shard sizes after the extra roll) / batch_size) * batch_size,
\* which is > 0 when size_no_pad > 0
C17_SkippedEpoch ==
  [][Ready /\ AccurateBranch /\ did_reset' =>
       /\ skipped' <=>
            NextSize([i \in DOMAIN NextShardSizes |-> NextShardSizes[i] - ReadAhead[i]],
                     batch_size) = 0
       /\ skipped' =>
            /\ \A i \in DOMAIN ReadAhead : ReadAhead[i] = NextShardSizes[i]
            /\ counter_per_gpu' = Zeros(shards_num)
            /\ counter' = 0
            /\ shard_sizes_per_gpu' = Roll(NextShardSizes, shards_num)
            /\ size' = CeilDiv(Max(shard_sizes_per_gpu'), batch_size) * batch_size
            /\ size_no_pad > 0 => size' > 0]_vars

\* -------------------------------------------- what the legacy rebase keeps
\* a manual size, with the samples drawn and the resets counted
LegacyConfig ==
  \E n \in 1..MaxPipes, bs \in 1..MaxBatch, a \in Args(1..MaxSize, {FALSE}) :
    /\ pipelines = UniformPipelines(n, bs, NoMeta(n))
    /\ args = a

InitLegacy == Fresh /\ Tallied /\ LegacyConfig

SpecLegacy == InitLegacy /\ [][Next]_vars

\* the samples drawn since construction are the tally.resets epochs of size
\* samples that were reset away and what counter holds
Accounted == tally.drawn = tally.resets * size + counter

\* C19 as stated: with a manual size, fill_last_batch and not
\* last_batch_padded, the caller adding its step for every batch and resetting
\* at the end of every epoch, after the k-th reset that is carried out the
\* samples drawn since construction are k * size + counter, for every
\* size >= 1 and every step, steps larger than size included
C19_LosslessAnyStep ==
  Ready /\ LegacyBranch /\ tally.on /\ did_reset => Accounted

\* C19: the same for every size >= 1 and every step that is not larger than
\* size, after every reset that is carried out and after every batch
C19_LosslessLegacy ==
  Ready /\ LegacyBranch /\ tally.on /\ BatchStep(batch_size) <= size => Accounted

C19_Witness ==
  /\ Ready /\ LegacyBranch /\ tally.on /\ did_reset
  /\ BatchStep(batch_size) <= size /\ size % batch_size # 0
  /\ tally.resets > 2 /\ counter > 0 /\ tally.drawn > tally.resets * size

\* ------------------------------------------------------- every epoch ends
MaxFairSize == 4

\* one pipeline with a reader over a dataset of up to MaxFairSize samples, or
\* with a manual size of up to MaxFairSize, with every combination of the
\* options
FairConfig ==
  \/ \E bs \in 1..MaxBatch, ns \in 1..MaxShards, es \in 1..MaxFairSize,
        pad \in BOOLEAN, stick \in BOOLEAN :
       \E a \in Args({-1}, {TRUE}) :
         /\ pipelines = UniformPipelines(1, bs, ReaderMeta(es, ns, pad, stick, Zeros(1)))
         /\ args = a
  \/ \E bs \in 1..MaxBatch, a \in Args(1..MaxFairSize, {FALSE}) :
       /\ pipelines = UniformPipelines(1, bs, NoMeta(1))
       /\ args = a

InitFair == Fresh /\ Untallied /\ FairConfig

\* the caller calls reset() when _check_stop raised
LoopReset == StopCondition(counter, size) /\ Reset

\* the loop of the caller: _check_stop, then a batch when it did not raise and
\* reset() when it did
LoopNext == Construct \/ CheckStop \/ DrawBatch \/ LoopReset

\* the caller goes on for ever
SpecFair ==
  InitFair /\ [][LoopNext]_vars /\ WF_vars(DrawBatch) /\ WF_vars(LoopReset)

\* C20: with size > 0 and a caller that checks _check_stop, draws a batch
\* (counter += batch_size) when it does not raise and calls reset() when it
\* does, the state in which _check_stop raises is reached again and again: it
\* is reached from every state of the iterator, a reset is carried out from it
\* and the next epoch ends again; between two such states every batch
\* increases counter and nothing else changes it; with every combination of
\* the options, also after resets that recompute size
C20_EveryEpochEnds ==
  /\ (Ready /\ size > 0) ~> StopCondition(counter, size)
  /\ (Ready /\ StopCondition(counter, size) /\ AheadBounded) ~> did_reset
  /\ [][Ready /\ size > 0 =>
          \/ did_reset'
          \/ lastOp' = "draw" /\ counter' > counter /\ ~StopCondition(counter, size)
          \/ lastOp' # "draw" /\ counter' = counter]_vars

C20_Witness ==
  /\ Ready /\ AccurateBranch /\ StopCondition(counter, size)
  /\ lastOp = "draw" /\ epoch_start > 0 /\ steps > 0
  /\ size # ReaderSize(FALSE, 0, size_no_pad, shards_num, batch_size)

====
